---- MODULE Spec2Model ----
(***************************************************************************)
(* Model of the record store of tkinter_1.py: the SQLite tables, the       *)
(* per-column policy held by Config, the audit log written by              *)
(* write_log_file, and the handlers of SheetFrame that mutate the store;   *)
(* and of the graph tab, which sums the schedule entries of the rows.      *)
(***************************************************************************)
EXTENDS Integers, Sequences, FiniteSets, TLC

VARIABLES
    db,                   \* the SQLite file: table name -> sequence of rows
    logs,                 \* LOGS_DIR: file name (clock tick) -> payload
    now,                  \* datetime.now(), in ticks of the "%H%M%S_%f" stamp
    nOps,                 \* number of row operations made so far
    col_types,            \* config.col_types
    col_standardization,  \* config.col_standardization
    pc,                   \* position of do_move: "idle" or "move_delete"
    mv,                   \* locals of the do_move call in progress
    last,                 \* the last handler call and what it reported
    graph,                \* the graph tab: its selections, and what _generate_graph built
    pending,              \* the audit payload of the helper that is between its commit
                          \* and its write_log_file
    seen,                 \* what a reader outside the GUI thread read last
    job                   \* the Atualizar button, the threads of run_update_script,
                          \* the callbacks they scheduled and the boxes shown

vars == <<db, logs, now, nOps, col_types, col_standardization, pc, mv, last, graph,
          pending, seen, job>>

(***************************************************************************)
(* Bounds of the model.                                                    *)
(***************************************************************************)
MaxOps == 2               \* row operations in one behaviour: a handler call counts
                          \* one, an import one for each row of its file
MaxEntries == 2           \* entries in the tuplas field of a row

(***************************************************************************)
(* Values.                                                                 *)
(***************************************************************************)
TableNames == {"A", "B"}
Columns == <<"id", "empresa">>
None == "<None>"
NaN == "<NaN>"
Ids == {"7", "007"}
IdTexts == Ids \cup {""}
EmpresaTexts == {"", "ACME", "X"}
IntTexts == {"7", "007"}
FloatTexts == {"7", "007"}
DateTexts == {}

Range(s) == {s[i] : i \in DOMAIN s}

(***************************************************************************)
(* Config: resolution of the type and of the standardization of a column.  *)
(***************************************************************************)
DefaultStd == [mode |-> "free", values |-> <<>>, required |-> FALSE]

get_col_type(table, col) ==
    IF table \in DOMAIN col_types /\ col \in DOMAIN col_types[table]
    THEN col_types[table][col]
    ELSE IF "*" \in DOMAIN col_types /\ col \in DOMAIN col_types["*"]
    THEN col_types["*"][col]
    ELSE "text"

\* A lookup that asks the "*" entries before the entries of the table.
get_col_standardization_Star(table, col) ==
    IF "*" \in DOMAIN col_standardization
       /\ col \in DOMAIN col_standardization["*"]
    THEN col_standardization["*"][col]
    ELSE IF table \in DOMAIN col_standardization
            /\ col \in DOMAIN col_standardization[table]
    THEN col_standardization[table][col]
    ELSE DefaultStd

get_col_standardization(table, col) ==
    IF table \in DOMAIN col_standardization
       /\ col \in DOMAIN col_standardization[table]
    THEN col_standardization[table][col]
    ELSE IF "*" \in DOMAIN col_standardization
            /\ col \in DOMAIN col_standardization["*"]
    THEN col_standardization["*"][col]
    ELSE DefaultStd

(***************************************************************************)
(* SheetFrame.validate_value: the type check, then the fixed-value check.  *)
(***************************************************************************)
TypeError(t, value) ==
    IF t = "int" /\ value # "" /\ value \notin IntTexts THEN "InvalidType"
    ELSE IF t = "float" /\ value # "" /\ value \notin FloatTexts THEN "InvalidFormat"
    ELSE IF t = "date" /\ value # "" /\ value \notin DateTexts THEN "InvalidFormat"
    ELSE ""

\* A validate_value without the check of the fixed values.
FixedError_Off(std, value, is_initial) == ""

FixedError(std, value, is_initial) ==
    IF std.mode # "fixed" THEN ""
    ELSE IF value = "" THEN (IF is_initial THEN "" ELSE "InvalidFixedValue")
    ELSE IF value \notin Range(std.values) THEN "InvalidFixedValue"
    ELSE ""

validate_value(tablename, col, value, is_initial) ==
    LET terr == TypeError(get_col_type(tablename, col), value)
        ferr == FixedError(get_col_standardization(tablename, col), value, is_initial)
    IN  IF terr # "" THEN [ok |-> FALSE, msg |-> terr, norm |-> None]
        ELSE IF ferr # "" THEN [ok |-> FALSE, msg |-> ferr, norm |-> None]
        ELSE [ok |-> TRUE, msg |-> "", norm |-> value]

(***************************************************************************)
(* SQLite: the queries the helpers run on one table.                       *)
(***************************************************************************)
\* A query that never finds the id.
CountId_Zero(tbl, idval) == 0

CountId(tbl, idval) == Cardinality({i \in DOMAIN tbl : tbl[i].id = idval})

\* A table whose id column carries no PRIMARY KEY.
PrimaryKeyOk_NoKey(tbl, idval) == TRUE

\* id TEXT PRIMARY KEY: a statement that would leave two rows with one id fails.
PrimaryKeyOk(tbl, idval) == CountId(tbl, idval) = 0

\* The query raises on a missing table, and the helper then answers False.
table_has_id(tablename, idval) ==
    IF tablename \notin DOMAIN db THEN FALSE
    ELSE CountId(db[tablename], idval) > 0

SelectById(tbl, idval) ==
    IF CountId(tbl, idval) = 0 THEN None
    ELSE tbl[CHOOSE i \in DOMAIN tbl :
                 tbl[i].id = idval /\ \A j \in DOMAIN tbl : tbl[j].id = idval => i <= j]

SqlDelete(tbl, idval) == SelectSeq(tbl, LAMBDA r : r.id # idval)

SqlUpdate(tbl, col, val, idval) ==
    [i \in DOMAIN tbl |-> IF tbl[i].id = idval THEN [tbl[i] EXCEPT ![col] = val] ELSE tbl[i]]

\* UPDATE ... SET id=? fails on the primary key when another row holds val.
SqlUpdateOk(tbl, col, val, idval) ==
    col = "id" /\ val # idval /\ CountId(tbl, idval) > 0 => PrimaryKeyOk(tbl, val)

\* int(rowid) of delete_row, bound to a TEXT column: the canonical numeral.
RowidInt(rowid) == IF rowid = "007" THEN "7" ELSE rowid

(***************************************************************************)
(* write_log_file: the file is named by the clock alone and opened "w";    *)
(* a failure to write is swallowed.                                        *)
(***************************************************************************)
write_log_file(files, payload, tsfile, env) ==
    IF env = "log" THEN files ELSE (tsfile :> payload) @@ files

Wrote(env) == IF env = "log" THEN 0 ELSE 1

(***************************************************************************)
(* What the environment does to one handler call: nothing; the clock has   *)
(* not moved since the last audit file was written ("sametick"); the       *)
(* clock does not move between the audit files of the call ("burst");      *)
(* the audit file cannot be written ("log"); the statement that writes     *)
(* the table, or its commit, raises ("write").                             *)
(***************************************************************************)
Envs == {"none", "sametick", "log", "write"}
ImportEnvs == {"none", "sametick", "burst", "write"}

\* The clock can stand still only on the tick of an audit file.
Possible(env) == env = "sametick" => now \in DOMAIN logs

\* datetime.now() at the first write_log_file of a call.
Stamp(env) == IF env = "sametick" THEN now ELSE now + 1

Last(op, res, tabela, rowid, wrote) ==
    [op |-> op, res |-> res, wrote |-> wrote, inserted |-> 0, updated |-> 0]

\* A handler that writes an audit file of the attempt before it checks.
Fail_Logged(op, res, tabela, rowid) ==
    /\ last' = Last(op, res, tabela, rowid, 1)
    /\ logs' = write_log_file(logs, [acao |-> op, tabela |-> tabela, rowid |-> rowid],
                              now + 1, "none")
    /\ now' = now + 1
    /\ UNCHANGED db

\* A handler that reports res and returns before any write.
Fail(op, res, tabela, rowid) ==
    /\ last' = Last(op, res, tabela, rowid, 0)
    /\ UNCHANGED <<db, logs, now>>

(***************************************************************************)
(* insert_row: duplicate check, INSERT, commit, then the audit entry.      *)
(***************************************************************************)
InsertError(tablename, values_dict, env) ==
    IF tablename \notin DOMAIN db THEN "StoreError"
    ELSE IF values_dict.id # "" /\ CountId(db[tablename], values_dict.id) > 0
    THEN "DuplicateId"
    ELSE IF env = "write" THEN "StoreError"
    ELSE IF ~PrimaryKeyOk(db[tablename], values_dict.id) THEN "IntegrityError"
    ELSE ""

InsertPayload(tablename, values_dict) ==
    [acao |-> "INSERT", tabela |-> tablename, rowid |-> values_dict.id,
     detalhes |-> values_dict]

\* An insert_row that undoes the INSERT when the audit file cannot be written.
insert_row_Undo(op, tablename, values_dict, env) ==
    LET err == InsertError(tablename, values_dict, env)
    IN  IF err # "" THEN Fail(op, err, tablename, values_dict.id)
        ELSE IF env = "log"
        THEN /\ last' = Last(op, "StoreError", tablename, values_dict.id, 0)
             /\ now' = Stamp(env)
             /\ UNCHANGED <<db, logs>>
        ELSE /\ db' = [db EXCEPT ![tablename] = Append(@, values_dict)]
             /\ logs' = write_log_file(logs, InsertPayload(tablename, values_dict),
                                       Stamp(env), env)
             /\ now' = Stamp(env)
             /\ last' = Last(op, "ok", tablename, values_dict.id, Wrote(env))

insert_row(op, tablename, values_dict, env) ==
    LET err == InsertError(tablename, values_dict, env)
    IN  IF err # "" THEN Fail(op, err, tablename, values_dict.id)
        ELSE /\ db' = [db EXCEPT ![tablename] = Append(@, values_dict)]
             /\ logs' = write_log_file(logs, InsertPayload(tablename, values_dict),
                                       Stamp(env), env)
             /\ now' = Stamp(env)
             /\ last' = Last(op, "ok", tablename, values_dict.id, Wrote(env))

(***************************************************************************)
(* update_cell: read the old value, UPDATE, commit, then the audit entry.  *)
(***************************************************************************)
OldValue(tbl, col, rowid) ==
    IF CountId(tbl, rowid) = 0 THEN None ELSE SelectById(tbl, rowid)[col]

UpdatePayload(tablename, col, val, rowid) ==
    [acao |-> "UPDATE", tabela |-> tablename, rowid |-> rowid, coluna |-> col,
     valor_antigo |-> OldValue(db[tablename], col, rowid), valor_novo |-> val]

\* An update_cell that writes its audit entry only when the SELECT found
\* the row, as delete_row does.
update_cell_Found(tablename, col, val, rowid, env) ==
    IF tablename \notin DOMAIN db \/ env = "write"
    THEN Fail("update", "StoreError", tablename, rowid)
    ELSE IF ~SqlUpdateOk(db[tablename], col, val, rowid)
    THEN Fail("update", "IntegrityError", tablename, rowid)
    ELSE IF CountId(db[tablename], rowid) = 0
    THEN /\ last' = Last("update", "ok", tablename, rowid, 0)
         /\ UNCHANGED <<db, logs, now>>
    ELSE /\ db' = [db EXCEPT ![tablename] = SqlUpdate(@, col, val, rowid)]
         /\ logs' = write_log_file(logs, UpdatePayload(tablename, col, val, rowid),
                                   Stamp(env), env)
         /\ now' = Stamp(env)
         /\ last' = Last("update", "ok", tablename, rowid, Wrote(env))

update_cell(tablename, col, val, rowid, env) ==
    IF tablename \notin DOMAIN db \/ env = "write"
    THEN Fail("update", "StoreError", tablename, rowid)
    ELSE IF ~SqlUpdateOk(db[tablename], col, val, rowid)
    THEN Fail("update", "IntegrityError", tablename, rowid)
    ELSE /\ db' = [db EXCEPT ![tablename] = SqlUpdate(@, col, val, rowid)]
         /\ logs' = write_log_file(logs, UpdatePayload(tablename, col, val, rowid),
                                   Stamp(env), env)
         /\ now' = Stamp(env)
         /\ last' = Last("update", "ok", tablename, rowid, Wrote(env))

(***************************************************************************)
(* delete_row: the audit entry is written when the row is found, before    *)
(* the DELETE and the commit.                                              *)
(***************************************************************************)
DeletePayload(tablename, rowid_int) ==
    [acao |-> "DELETE", tabela |-> tablename, rowid |-> rowid_int,
     valor_antigo |-> SelectById(db[tablename], rowid_int)]

delete_row(op, tablename, rowid, env) ==
    LET rowid_int == RowidInt(rowid)
        found == CountId(db[tablename], rowid_int) > 0
        files == IF found
                 THEN write_log_file(logs, DeletePayload(tablename, rowid_int),
                                     Stamp(env), env)
                 ELSE logs
        wrote == IF found THEN Wrote(env) ELSE 0
    IN  IF tablename \notin DOMAIN db
        THEN Fail(op, "StoreError", tablename, rowid)
        ELSE /\ logs' = files
             /\ now' = IF found THEN Stamp(env) ELSE now
             /\ IF env = "write"
                THEN /\ db' = db
                     /\ last' = Last(op, "StoreError", tablename, rowid, wrote)
                ELSE /\ db' = [db EXCEPT ![tablename] = SqlDelete(@, rowid_int)]
                     /\ last' = Last(op, "ok", tablename, rowid, wrote)

(***************************************************************************)
(* SheetFrame.add_row.save                                                 *)
(***************************************************************************)
\* An add_row.save without its check of the required columns.
MissingRequired_Off(table, values) == {}

MissingRequired(table, values) ==
    {c \in Range(Columns) :
        get_col_standardization(table, c).required /\ values[c] = ""}

Invalid(table, values, is_initial) ==
    {i \in DOMAIN Columns :
        ~validate_value(table, Columns[i], values[Columns[i]], is_initial).ok}

FirstInvalidMsg(table, values, is_initial) ==
    LET bad == Invalid(table, values, is_initial)
        i == CHOOSE k \in bad : \A j \in bad : k <= j
    IN  validate_value(table, Columns[i], values[Columns[i]], is_initial).msg

Begin(n) ==
    /\ pc = "idle"
    /\ nOps + n <= MaxOps
    /\ nOps' = nOps + n
    /\ UNCHANGED <<col_types, col_standardization, graph, pending, seen, job>>

add_row_save(table, values) ==
    /\ Begin(1)
    /\ table \in DOMAIN db
    /\ UNCHANGED <<pc, mv>>
    /\ IF MissingRequired(table, values) # {}
       THEN Fail("insert", "MissingRequired", table, values.id)
       ELSE IF values.id = ""
       THEN Fail("insert", "EmptyId", table, values.id)
       ELSE \E env \in Envs :
            /\ Possible(env)
            /\ IF table_has_id(table, values.id)
               THEN Fail("insert", "DuplicateId", table, values.id)
               ELSE IF Invalid(table, values, TRUE) # {}
               THEN Fail("insert", FirstInvalidMsg(table, values, TRUE), table, values.id)
               ELSE insert_row("insert", table, values, env)

(***************************************************************************)
(* SheetFrame.cell_edit: save_entry and save_combo                         *)
(***************************************************************************)
cell_edit_save(tablename, rowid, col, newval) ==
    /\ Begin(1)
    /\ tablename \in DOMAIN db
    /\ UNCHANGED <<pc, mv>>
    /\ LET v == validate_value(tablename, col, newval, FALSE)
       IN  IF ~v.ok THEN Fail("update", v.msg, tablename, rowid)
           ELSE \E env \in Envs :
                    Possible(env) /\ update_cell(tablename, col, v.norm, rowid, env)

(***************************************************************************)
(* SheetFrame.delete_selection                                             *)
(***************************************************************************)
delete_selection(tablename, rowid) ==
    /\ Begin(1)
    /\ tablename \in DOMAIN db
    /\ UNCHANGED <<pc, mv>>
    /\ \E env \in Envs : Possible(env) /\ delete_row("delete", tablename, rowid, env)

(***************************************************************************)
(* SheetFrame.move_row_dialog.do_move: the checks, then insert_row on the  *)
(* destination; delete_row on the source runs as the next step, only when  *)
(* insert_row returned.                                                    *)
(***************************************************************************)
\* A do_move that takes the entry's text as the id even when it is blank.
NewId_Typed(row, newid) == newid

NewId(row, newid) == IF newid = "" THEN row.id ELSE newid

\* The source row mapped onto the destination's columns, under the new id.
MoveValues(row, new_id) ==
    [c \in Range(Columns) |->
        IF c = "id" THEN new_id ELSE IF c \in DOMAIN row THEN row[c] ELSE ""]

\* ask_fill_missing: OK stores the values typed for the missing columns.
Filled(values, missing_cols, typed) ==
    [c \in DOMAIN values |-> IF c \in missing_cols THEN typed[c] ELSE values[c]]

\* A dialog whose OK takes whatever stands in the entries.
do_ok_Unchecked(missing_cols, typed) == typed.id # None

\* ask_fill_missing returns the values only after do_ok found a text in
\* the entry of every missing column; on an empty entry do_ok shows the
\* error and leaves the dialog open, which then ends by Cancelar.
do_ok(missing_cols, typed) ==
    typed.id # None /\ \A c \in missing_cols : typed[c] # ""

NoPayload == [acao |-> None]

NoMove == [src |-> None, rowid |-> None, dest |-> None, new_id |-> None]

\* What do_move does after a successful insert_row.
AfterInsert(src_table, rowid, dest, new_id) ==
    /\ pc' = "move_delete"
    /\ mv' = [src |-> src_table, rowid |-> rowid, dest |-> dest, new_id |-> new_id]

\* A do_move that goes on to delete_row whatever insert_row did.
do_move_insert_always(src_table, rowid, dest, values, env) ==
    /\ insert_row("move", dest, values, env)
    /\ AfterInsert(src_table, rowid, dest, values.id)

do_move_insert(src_table, rowid, dest, values, env) ==
    /\ insert_row("move", dest, values, env)
    /\ IF InsertError(dest, values, env) = ""
       THEN AfterInsert(src_table, rowid, dest, values.id)
       ELSE UNCHANGED <<pc, mv>>

do_move(src_table, row, dest, newid, typed) ==
    /\ Begin(1)
    /\ src_table \in DOMAIN db
    /\ dest \in DOMAIN db \ {src_table}
    /\ LET new_id == NewId(row, newid)
           values == MoveValues(row, new_id)
           missing == MissingRequired(dest, values)
       IN  \E env \in Envs :
           /\ Possible(env)
           /\ IF table_has_id(dest, new_id)
              THEN Fail("move", "DuplicateId", dest, new_id) /\ UNCHANGED <<pc, mv>>
              ELSE IF missing # {} /\ ~do_ok(missing, typed)
              THEN Fail("move", "Cancelled", dest, new_id) /\ UNCHANGED <<pc, mv>>
              ELSE do_move_insert(src_table, row.id, dest,
                              IF missing = {} THEN values
                              ELSE Filled(values, missing, typed), env)

do_move_delete ==
    /\ pc = "move_delete"
    /\ \E env \in Envs : Possible(env) /\ delete_row("move", mv.src, mv.rowid, env)
    /\ pc' = "idle"
    /\ mv' = NoMove
    /\ UNCHANGED <<nOps, col_types, col_standardization, graph, pending, seen, job>>

(***************************************************************************)
(* import_file_to_table: one transaction over the rows of the file; each   *)
(* row's audit entry is written as the row is executed, the commit comes   *)
(* after the last row, any exception rolls the transaction back.           *)
(***************************************************************************)
\* str() of a cell read with dtype=str: a blank cell is NaN and reads "nan".
Str(cell) == IF cell = NaN THEN "nan" ELSE cell

\* A column the file lacks (None here) gives "".
RowDict(cells) ==
    [c \in Range(Columns) |-> IF cells[c] = None THEN "" ELSE Str(cells[c])]

ImportPayload(acao, tablename, rowdict) ==
    [acao |-> acao, tabela |-> tablename, rowid |-> rowdict.id, detalhes |-> rowdict]

\* UPDATE ... SET every column but id ... WHERE id=?
SqlUpdateRow(tbl, rowdict) ==
    [i \in DOMAIN tbl |->
        IF tbl[i].id = rowdict.id THEN [rowdict EXCEPT !.id = tbl[i].id] ELSE tbl[i]]

ImportStart == [tbl |-> <<>>, files |-> <<>>, ts |-> 0, wrote |-> 0,
                inserted |-> 0, updated |-> 0, failed |-> FALSE]

ImportRow(st, tablename, rowdict, step, env) ==
    LET exists == rowdict.id # "" /\ CountId(st.tbl, rowdict.id) > 0
        ts == st.ts + step
    IN  IF st.failed THEN st
        ELSE IF exists
        THEN [st EXCEPT !.tbl = SqlUpdateRow(st.tbl, rowdict),
                        !.updated = @ + 1,
                        !.files = write_log_file(@, ImportPayload("IMPORT_UPDATE",
                                                 tablename, rowdict), ts, env),
                        !.ts = ts,
                        !.wrote = @ + Wrote(env)]
        ELSE IF ~PrimaryKeyOk(st.tbl, rowdict.id)
        THEN [st EXCEPT !.failed = TRUE]
        ELSE [st EXCEPT !.tbl = Append(st.tbl, rowdict),
                        !.inserted = @ + 1,
                        !.files = write_log_file(@, ImportPayload("IMPORT_INSERT",
                                                 tablename, rowdict), ts, env),
                        !.ts = ts,
                        !.wrote = @ + Wrote(env)]

\* The ticks the clock moves before the audit file of row k is written.
Step(env, k) ==
    IF k = 1 THEN (IF env = "sametick" THEN 0 ELSE 1)
    ELSE (IF env = "burst" THEN 0 ELSE 1)

RECURSIVE ImportLoop(_, _, _, _, _)
ImportLoop(st, tablename, file, k, env) ==
    IF k > Len(file) THEN st
    ELSE ImportLoop(ImportRow(st, tablename, RowDict(file[k]), Step(env, k), env),
                    tablename, file, k + 1, env)

import_file_to_table(tablename, file, env) ==
    LET st0 == [ImportStart EXCEPT !.tbl = db[tablename], !.files = logs, !.ts = now]
        st == ImportLoop(st0, tablename, file, 1, env)
        rollback == st.failed \/ env = "write"
    IN  /\ logs' = st.files
        /\ now' = st.ts
        /\ db' = IF rollback THEN db ELSE [db EXCEPT ![tablename] = st.tbl]
        /\ last' = [op |-> "import",
                    res |-> IF rollback THEN "StoreError" ELSE "ok",
                    wrote |-> st.wrote,
                    inserted |-> IF rollback THEN 0 ELSE st.inserted,
                    updated |-> IF rollback THEN 0 ELSE st.updated]

do_import(tablename, file) ==
    /\ Begin(Len(file))
    /\ tablename \in DOMAIN db
    /\ UNCHANGED <<pc, mv>>
    /\ \E env \in ImportEnvs :
           /\ Possible(env)
           /\ env = "burst" => Len(file) > 1
           /\ import_file_to_table(tablename, file, env)

(***************************************************************************)
(* The graph tab of FinanceManagerGUI: _parse_tuplas_field decodes the     *)
(* tuplas field of a row, _generate_graph sums one metric of its entries   *)
(* by month and group.                                                     *)
(***************************************************************************)
\* The field as text: a Python literal ("literal"), the same text with its
\* strings in curly quotes ("curly"), text that is no literal ("broken"),
\* the blank cell ("nan"); items is the list a literal denotes.
Field(form, items) == [form |-> form, items |-> items]

\* The field written out ("text"): items is then the sequence of the tokens
\* of str(val).strip().  A token is a bracket or a comma, a number, a word,
\* or a string with its quote character: ' or " or a pair of curly quotes.
Tok(t, q, n, w) == [t |-> t, q |-> q, n |-> n, w |-> w]
Sym(t) == Tok(t, "", 0, "")
NumTok(n) == Tok("num", "", n, "")
StrTok(q, w) == Tok("str", q, 0, w)
Word(w) == Tok("word", "", 0, w)

\* The text of the string holds an apostrophe.
HasApostrophe(w) == w = "D'A"

\* A reader of strings in single quotes only.
StrOk_Single(k) == k.q = "'" /\ ~HasApostrophe(k.w)

\* A string literal Python reads: straight quotes that its text does not
\* close early.
StrOk(k) == k.q = "\"" \/ (k.q = "'" /\ ~HasApostrophe(k.w))

NoValue == [ok |-> FALSE, seq |-> FALSE, val |-> <<>>, next |-> 0]
NoItems == [ok |-> FALSE, val |-> <<>>, kinds |-> <<>>, comma |-> FALSE, next |-> 0]

\* One item without a comma is that item; anything else is the tuple.
Grouped(r) ==
    IF Len(r.val) = 1 /\ ~r.comma
    THEN [ok |-> TRUE, seq |-> r.kinds[1], val |-> r.val[1], next |-> r.next]
    ELSE [ok |-> TRUE, seq |-> TRUE, val |-> r.val, next |-> r.next]

RECURSIVE ParseValue(_, _)
RECURSIVE ParseItems(_, _, _, _, _, _)

\* The literal that starts at token i: a number, a string, a list, a tuple.
ParseValue(text, i) ==
    IF i > Len(text) THEN NoValue
    ELSE LET k == text[i]
         IN  IF k.t = "num"
             THEN [ok |-> TRUE, seq |-> FALSE, val |-> k.n, next |-> i + 1]
             ELSE IF k.t = "str"
             THEN (IF StrOk(k)
                   THEN [ok |-> TRUE, seq |-> FALSE, val |-> k.w, next |-> i + 1]
                   ELSE NoValue)
             ELSE IF k.t = "["
             THEN LET r == ParseItems(text, i + 1, "]", <<>>, <<>>, FALSE)
                  IN  IF r.ok
                      THEN [ok |-> TRUE, seq |-> TRUE, val |-> r.val, next |-> r.next]
                      ELSE NoValue
             ELSE IF k.t = "("
             THEN LET r == ParseItems(text, i + 1, ")", <<>>, <<>>, FALSE)
                  IN  IF r.ok THEN Grouped(r) ELSE NoValue
             ELSE NoValue

\* The items from token i up to the token close, commas between them and
\* possibly one after the last.
ParseItems(text, i, close, acc, kinds, comma) ==
    IF i > Len(text) THEN NoItems
    ELSE IF text[i].t = close
    THEN [ok |-> TRUE, val |-> acc, kinds |-> kinds, comma |-> comma, next |-> i + 1]
    ELSE LET v == ParseValue(text, i)
         IN  IF ~v.ok \/ v.next > Len(text) THEN NoItems
             ELSE IF text[v.next].t = ","
             THEN ParseItems(text, v.next + 1, close, Append(acc, v.val),
                             Append(kinds, v.seq), TRUE)
             ELSE IF text[v.next].t = close
             THEN [ok |-> TRUE, val |-> Append(acc, v.val),
                   kinds |-> Append(kinds, v.seq), comma |-> comma,
                   next |-> v.next + 1]
             ELSE NoItems

\* ast.literal_eval(s): ok is FALSE where it raises; seq tells a list or
\* a tuple from a number or a string.
literal_eval(text) ==
    LET r == ParseItems(Append(text, Sym("<end>")), 1, "<end>", <<>>, <<>>, FALSE)
    IN  IF ~r.ok \/ r.val = <<>> THEN NoValue ELSE Grouped(r)

\* s.replace("\u201c", '"').replace("\u201d", '"').replace("'", '"'): every
\* quote becomes ", also the apostrophe within the text of a string.
s2(text) ==
    [i \in DOMAIN text |->
        IF text[i].t # "str" THEN text[i]
        ELSE IF HasApostrophe(text[i].w) THEN Word(text[i].w)
        ELSE StrTok("\"", text[i].w)]

\* A fallback that returns whatever the second literal_eval gives.
Retry_Unchecked(text) ==
    IF literal_eval(s2(text)).ok THEN literal_eval(s2(text)).val ELSE <<>>

\* The except branch: the parse of s2, kept only when it is a list or a tuple.
Retry(text) ==
    IF literal_eval(s2(text)).ok /\ literal_eval(s2(text)).seq
    THEN literal_eval(s2(text)).val
    ELSE <<>>

IsNan(text) == Len(text) = 1 /\ text[1].t = "word" /\ text[1].w \in {"nan", "NaN"}

\* A decoder that makes a one-item list of a literal that is no list.
parse_text_Wrapped(text) ==
    IF text = <<>> \/ IsNan(text) THEN <<>>
    ELSE IF literal_eval(text).ok
    THEN (IF literal_eval(text).seq THEN literal_eval(text).val
          ELSE <<literal_eval(text).val>>)
    ELSE Retry(text)

parse_text(text) ==
    IF text = <<>> \/ IsNan(text) THEN <<>>
    ELSE IF literal_eval(text).ok
    THEN (IF literal_eval(text).seq THEN literal_eval(text).val ELSE <<>>)
    ELSE Retry(text)

_parse_tuplas_field(val) ==
    IF val.form = "text" THEN parse_text(val.items)
    ELSE IF val.form = "nan" THEN <<>>
    ELSE IF val.form = "literal" THEN val.items
    ELSE IF val.form = "curly" THEN val.items
    ELSE <<>>

\* datetime.strptime(date_str, "%d-%m-%Y"): year 0 stands for ValueError.
strptime(date_str) ==
    IF date_str = "01-03-2024" THEN [year |-> 2024, month |-> 3]
    ELSE IF date_str = "01-05-2024" THEN [year |-> 2024, month |-> 5]
    ELSE [year |-> 0, month |-> 0]

\* start_dt <= dt < end_dt, with end_dt the first day of the month after em/ey.
InPeriod(dt, sm, sy, em, ey) ==
    /\ sy * 12 + sm <= dt.year * 12 + dt.month
    /\ dt.year * 12 + dt.month < ey * 12 + em + 1

\* The first field of an entry whose text float() cannot read.
BadAmount == -1

\* The locals of one turn of the loop over the entries; ok is FALSE where
\* the try block raises and the entry is skipped.
EntryLocals(t) ==
    IF Len(t) < 3 \/ t[1] = BadAmount \/ strptime(t[2]).year = 0
    THEN [ok |-> FALSE]
    ELSE LET valor_pago == t[1]
             amortizacao == IF Len(t) > 5 THEN t[6] ELSE 0
         IN  [ok |-> TRUE, valor_pago |-> valor_pago, empresa |-> t[3],
              amortizacao |-> amortizacao, juros |-> valor_pago - amortizacao,
              dt |-> strptime(t[2])]

Group(grouping, empresa, b) ==
    IF grouping = "por_empresa" THEN empresa
    ELSE IF grouping = "por_banco" THEN b
    ELSE "TOTAL"

Metric(metric, loc) ==
    IF metric = "parcelas" THEN loc.valor_pago
    ELSE IF metric = "amortizacao" THEN loc.amortizacao
    ELSE IF metric = "juros" THEN loc.juros
    ELSE 0

AggAdd(agg, key, x) ==
    IF key \in DOMAIN agg THEN [agg EXCEPT ![key] = @ + x] ELSE (key :> x) @@ agg

sm == 1
sy == 2024
em == 3
ey == 2024
selected_companies == {"ACME"}
selected_bank == "BancoX"

Counted(loc) ==
    /\ loc.ok
    /\ InPeriod(loc.dt, sm, sy, em, ey)
    /\ loc.empresa \in selected_companies

\* A loop that leaves the list at the first entry the try block rejects.
RECURSIVE AggLoop_Break(_, _, _, _, _)
AggLoop_Break(agg, tupl, k, metric, grouping) ==
    IF k > Len(tupl) \/ ~EntryLocals(tupl[k]).ok THEN agg
    ELSE LET loc == EntryLocals(tupl[k])
         IN  AggLoop_Break(IF Counted(loc)
                           THEN AggAdd(agg, <<loc.dt.year, loc.dt.month,
                                              Group(grouping, loc.empresa, selected_bank)>>,
                                       Metric(metric, loc))
                           ELSE agg,
                           tupl, k + 1, metric, grouping)

RECURSIVE AggLoop(_, _, _, _, _)
AggLoop(agg, tupl, k, metric, grouping) ==
    IF k > Len(tupl) THEN agg
    ELSE LET loc == EntryLocals(tupl[k])
         IN  AggLoop(IF Counted(loc)
                     THEN AggAdd(agg, <<loc.dt.year, loc.dt.month,
                                        Group(grouping, loc.empresa, selected_bank)>>,
                                 Metric(metric, loc))
                     ELSE agg,
                     tupl, k + 1, metric, grouping)

\* for _, row in df.iterrows(): the rows that follow the first.
RECURSIVE RowLoop(_, _, _, _, _)
RowLoop(agg, rows, k, metric, grouping) ==
    IF k > Len(rows) THEN agg
    ELSE RowLoop(AggLoop(agg, _parse_tuplas_field(rows[k]), 1, metric, grouping),
                 rows, k + 1, metric, grouping)

\* tuplas is the field of the first row of the table, rows the fields of
\* the rows after it.
NoGraph == [tuplas |-> Field("nan", <<>>), rows |-> <<>>, metric |-> "parcelas",
            grouping |-> "por_empresa", tupl |-> <<>>, agg |-> <<>>, shown |-> "none"]

_generate_graph ==
    /\ graph.shown = "none"
    /\ LET tupl == _parse_tuplas_field(graph.tuplas)
           agg == RowLoop(AggLoop(<<>>, tupl, 1, graph.metric, graph.grouping),
                          graph.rows, 1, graph.metric, graph.grouping)
       IN  graph' = [graph EXCEPT !.tupl = tupl,
                                  !.agg = agg,
                                  !.shown = IF agg = <<>> THEN "aviso" ELSE "plot"]
    /\ UNCHANGED <<db, logs, now, nOps, col_types, col_standardization, pc, mv, last,
                   pending, seen, job>>

(***************************************************************************)
(* Initial state: the settings and the database as a previous run left     *)
(* them on disk.                                                           *)
(***************************************************************************)
Fixed(vals, req) == [mode |-> "fixed", values |-> vals, required |-> req]
Free(req) == [mode |-> "free", values |-> <<>>, required |-> req]

Settings ==
    ("*" :> ("empresa" :> Fixed(<<"ACME">>, FALSE)))
        @@ ("B" :> ("empresa" :> Free(TRUE)))

Row(i, e) == [id |-> i, empresa |-> e]

Database == [t \in TableNames |-> <<Row("7", "ACME")>>]

(***************************************************************************)
(* run_update_script: the Atualizar button runs the script in a thread    *)
(* of its own and reports on the GUI thread when the script has ended.     *)
(***************************************************************************)
\* The button as _build_ui packs it, no thread started, nothing shown.
NoJob == [button |-> "normal", threads |-> 0, after |-> <<>>, procs |-> <<>>,
          boxes |-> <<>>, launches |-> 0]

\* How subprocess.run can end: the script exits with a code, it is still
\* running after the timeout, or the interpreter cannot be started.
Exit(code) == [kind |-> "exit", code |-> code]
TimeoutExpired == [kind |-> "TimeoutExpired", code |-> 0]
OSError == [kind |-> "OSError", code |-> 0]
NoFile == [kind |-> "isfile", code |-> 0]
Outcomes == {Exit(0), Exit(1), TimeoutExpired, OSError}

returncode(proc) ==
    IF proc.kind = "exit" THEN proc.code
    ELSE IF proc.kind = "TimeoutExpired" THEN -1 ELSE -2

\* What the script may have done to the database when subprocess.run ends:
\* nothing, or the row it adds to table A.
ScriptRow == Row("J", "ACME")
ScriptEffects(proc) ==
    {db} \cup (IF proc.kind = "OSError" \/ ScriptRow \in Range(db["A"]) THEN {}
               ELSE {[db EXCEPT !["A"] = Append(@, ScriptRow)]})

showinfo(code, logmsg) == [box |-> "showinfo", returncode |-> code, logmsg |-> logmsg]
showerror(code, logmsg) == [box |-> "showerror", returncode |-> code, logmsg |-> logmsg]

\* A run_update_script that leaves the button as it is.
run_update_script_NoDisable ==
    /\ pc = "idle"
    /\ job.button = "normal"
    /\ nOps < MaxOps
    /\ nOps' = nOps + 1
    /\ \E isfile \in BOOLEAN :
           job' = IF ~isfile
                  THEN [job EXCEPT !.launches = @ + 1,
                                   !.procs = Append(@, NoFile),
                                   !.boxes = Append(@, showerror(0, "isfile"))]
                  ELSE [job EXCEPT !.launches = @ + 1,
                                   !.threads = @ + 1]
    /\ UNCHANGED <<db, logs, now, col_types, col_standardization, pc, mv, last,
                   graph, pending, seen>>

\* The command of the button: a disabled button does not call it.
run_update_script ==
    /\ pc = "idle"
    /\ job.button = "normal"
    /\ nOps < MaxOps
    /\ nOps' = nOps + 1
    /\ \E isfile \in BOOLEAN :
           job' = IF ~isfile
                  THEN [job EXCEPT !.launches = @ + 1,
                                   !.procs = Append(@, NoFile),
                                   !.boxes = Append(@, showerror(0, "isfile"))]
                  ELSE [job EXCEPT !.launches = @ + 1,
                                   !.button = "disabled",
                                   !.threads = @ + 1]
    /\ UNCHANGED <<db, logs, now, col_types, col_standardization, pc, mv, last,
                   graph, pending, seen>>

\* A _run whose thread ends with the exception when subprocess.run raises
\* one that is not TimeoutExpired.
_run_Raise ==
    /\ job.threads > 0
    /\ \E proc \in Outcomes, logmsg \in {"Saida gravada", "Falha ao gravar"} :
           /\ db' \in ScriptEffects(proc)
           /\ job' = IF proc.kind = "OSError"
                     THEN [job EXCEPT !.threads = @ - 1, !.procs = Append(@, proc)]
                     ELSE [job EXCEPT !.threads = @ - 1,
                                      !.procs = Append(@, proc),
                                      !.after = Append(@, [returncode |-> returncode(proc),
                                                           logmsg |-> logmsg])]
    /\ UNCHANGED <<logs, now, nOps, col_types, col_standardization, pc, mv, last,
                   graph, pending, seen>>

\* The thread: subprocess.run ends, the output file is written or not,
\* and _on_complete is handed to the GUI thread with self.after.
_run ==
    /\ job.threads > 0
    /\ \E proc \in Outcomes, logmsg \in {"Saida gravada", "Falha ao gravar"} :
           /\ db' \in ScriptEffects(proc)
           /\ job' = [job EXCEPT !.threads = @ - 1,
                                 !.procs = Append(@, proc),
                                 !.after = Append(@, [returncode |-> returncode(proc),
                                                      logmsg |-> logmsg])]
    /\ UNCHANGED <<logs, now, nOps, col_types, col_standardization, pc, mv, last,
                   graph, pending, seen>>

\* The callback, run by the main loop between two handlers.
_on_complete ==
    /\ pc = "idle"
    /\ job.after # <<>>
    /\ LET cb == Head(job.after)
       IN  job' = [job EXCEPT !.after = Tail(@),
                              !.button = "normal",
                              !.boxes = Append(@, IF cb.returncode = 0
                                                  THEN showinfo(cb.returncode, cb.logmsg)
                                                  ELSE showerror(cb.returncode, cb.logmsg))]
    /\ UNCHANGED <<db, logs, now, nOps, col_types, col_standardization, pc, mv, last,
                   graph, pending, seen>>

InitStore ==
    /\ db = Database
    /\ logs = <<>>
    /\ now = 0
    /\ nOps = 0
    /\ col_types = <<>>
    /\ col_standardization = Settings
    /\ pc = "idle"
    /\ mv = NoMove
    /\ last = Last("none", "ok", None, None, 0)
    /\ pending = NoPayload
    /\ seen = [db |-> Database, logs |-> <<>>]
    /\ job = NoJob

Init == InitStore /\ graph = NoGraph

(***************************************************************************)
(* The inputs of the handlers.                                             *)
(***************************************************************************)
Rows == {Row(i, e) : i \in IdTexts, e \in EmpresaTexts}
\* The texts typed into the cell of column c.
CellTexts(c) == IF c = "id" THEN Ids ELSE EmpresaTexts
Cancel == Row(None, None)
Typed == {Cancel, Row("007", "ACME")}
IdCells == {"7", NaN}
EmpresaCells == {"X"}
Cells(hasId) == {Row(i, e) : i \in (IF hasId THEN IdCells ELSE {None}), e \in EmpresaCells}
Files == UNION {[1..n -> Cells(h)] : n \in 1..MaxOps, h \in BOOLEAN}

\* No handler starts while do_move is between its two calls, nor beyond MaxOps.
Ready == pc = "idle" /\ nOps < MaxOps

Next ==
    \/ Ready /\ \E t \in TableNames, r \in Rows : add_row_save(t, r)
    \/ Ready /\ \E t \in TableNames, i \in Ids, v \in Ids : cell_edit_save(t, i, "id", v)
    \/ Ready /\ \E t \in TableNames, i \in Ids, v \in EmpresaTexts :
                    cell_edit_save(t, i, "empresa", v)
    \/ Ready /\ \E t \in TableNames, i \in Ids : delete_selection(t, i)
    \/ Ready /\ \E s \in TableNames, d \in TableNames, n \in IdTexts, typed \in Typed :
                    \E r \in Range(db[s]) : do_move(s, r, d, n, typed)
    \/ do_move_delete
    \/ Ready /\ \E t \in TableNames, f \in Files : do_import(t, f)

Spec == Init /\ [][Next]_vars

(***************************************************************************)
(* The graph tab alone: a row's tuplas field and the selections are drawn  *)
(* at the start, and Gerar builds the sums.                                *)
(***************************************************************************)
Datas == {"01-03-2024", "01-05-2024", "2024-03-01"}
Empresas == {"ACME", "Outra"}
Entry(d, e) == <<100, d, e, "BancoX", 1, 20, 80>>
Entries == UNION {{SubSeq(Entry(d, e), 1, n) : n \in 5..7} : d \in Datas, e \in Empresas}
Lists == UNION {[1..n -> Entries] : n \in 0..MaxEntries}
Fields == {Field(f, l) : f \in {"literal", "curly"}, l \in Lists}
              \cup {Field("broken", <<>>), Field("nan", <<>>)}
Metrics == {"parcelas", "amortizacao", "juros"}
Groupings == {"por_empresa", "por_banco", "tudo"}

InitAgg ==
    /\ InitStore
    /\ \E f \in Fields, m \in Metrics, g \in Groupings :
           graph = [NoGraph EXCEPT !.tuplas = f, !.metric = m, !.grouping = g]

NextAgg == _generate_graph

SpecAgg == InitAgg /\ [][NextAgg]_vars

(***************************************************************************)
(* SpecCodec: the text of a tuplas cell is drawn, and the call of          *)
(* _parse_tuplas_field at the head of the loop over the rows decodes it.   *)
(* The text is what the update script writes (its encode), whole, cut      *)
(* short or in curly quotes, or something else altogether.                 *)
(***************************************************************************)
\* str.join over token sequences.
RECURSIVE Joined(_, _)
Joined(parts, k) ==
    IF k > Len(parts) THEN <<>>
    ELSE IF k = Len(parts) THEN parts[k]
    ELSE parts[k] \o <<Sym(",")>> \o Joined(parts, k + 1)

\* repr of field k of an entry: date, company and bank are strings, in
\* single quotes unless the text holds an apostrophe.
EncodeField(k, v) ==
    IF k \in {2, 3, 4}
    THEN StrTok(IF HasApostrophe(v) THEN "\"" ELSE "'", v)
    ELSE NumTok(v)

EncodeEntry(t) ==
    <<Sym("(")>> \o Joined([k \in DOMAIN t |-> <<EncodeField(k, t[k])>>], 1)
        \o (IF Len(t) = 1 THEN <<Sym(",")>> ELSE <<>>) \o <<Sym(")")>>

\* The canonical text of a sequence of entries.
encode(x) ==
    <<Sym("[")>> \o Joined([k \in DOMAIN x |-> EncodeEntry(x[k])], 1) \o <<Sym("]")>>

\* The same text with its strings in curly quotes.
Curly(text) ==
    [i \in DOMAIN text |->
        IF text[i].t = "str" THEN StrTok("curly", text[i].w) ELSE text[i]]

CodecEntries == {Entry(d, e) : d \in {"01-03-2024"}, e \in {"ACME", "D'A"}}
CodecLists == UNION {[1..n -> CodecEntries] : n \in 0..MaxEntries}

Prefixes(text) == {SubSeq(text, 1, n) : n \in 0..(Len(text) - 1)}

OtherTexts ==
    {<<>>, <<Word("nan")>>, <<Word("NaN")>>, <<Word("abc")>>, <<NumTok(5)>>,
     <<StrTok("'", "ACME")>>, <<StrTok("curly", "ACME")>>,
     <<NumTok(1), Sym(","), NumTok(5)>>,
     <<Sym("["), NumTok(1), Sym(","), NumTok(5), Sym("]")>>,
     <<Sym("("), NumTok(5), Sym(")")>>}

Texts ==
    {encode(x) : x \in CodecLists} \cup {Curly(encode(x)) : x \in CodecLists}
        \cup UNION {Prefixes(encode(x)) : x \in CodecLists}
        \cup UNION {Prefixes(Curly(encode(x))) : x \in CodecLists}
        \cup OtherTexts

InitCodec ==
    /\ InitStore
    /\ \E text \in Texts : graph = [NoGraph EXCEPT !.tuplas = Field("text", text)]

\* tupl = self._parse_tuplas_field(row.get("tuplas"))
parse_tuplas ==
    /\ graph.shown = "none"
    /\ graph' = [graph EXCEPT !.tupl = _parse_tuplas_field(graph.tuplas),
                              !.shown = "parsed"]
    /\ UNCHANGED <<db, logs, now, nOps, col_types, col_standardization, pc, mv, last,
                   pending, seen, job>>

NextCodec == parse_tuplas

SpecCodec == InitCodec /\ [][NextCodec]_vars

(***************************************************************************)
(* SpecRows: a table of two rows whose entries are well formed or not.     *)
(***************************************************************************)
RowEntries ==
    {Entry("01-03-2024", "ACME"),
     <<50, "01-03-2024", "ACME", "BancoX", 2, 10, 40>>,
     Entry("2024-03-01", "ACME"),
     <<100, "01-03-2024">>,
     <<BadAmount, "01-03-2024", "ACME", "BancoX", 1, 20, 80>>}

RowLists == UNION {[1..n -> RowEntries] : n \in 0..MaxEntries}

RowFields == {Field("literal", l) : l \in RowLists} \cup {Field("broken", <<>>)}

InitRows ==
    /\ InitStore
    /\ \E f \in RowFields, g \in RowFields, m \in Metrics :
           graph = [NoGraph EXCEPT !.tuplas = f, !.rows = <<g>>, !.metric = m]

NextRows == _generate_graph

SpecRows == InitRows /\ [][NextRows]_vars

(***************************************************************************)
(* The helpers step by step, beside a reader: the script started by        *)
(* run_update_script runs in its own process while the window goes on      *)
(* serving its handlers, and reads the database and the log directory      *)
(* whenever it comes to.  insert_row and update_cell commit, then write    *)
(* the audit file; delete_row writes the audit file, then deletes and      *)
(* commits.                                                                *)
(***************************************************************************)
Call ==
    /\ pc = "idle"
    /\ nOps < MaxOps
    /\ nOps' = nOps + 1
    /\ UNCHANGED <<col_types, col_standardization, mv, last, graph, seen, job>>

insert_row_commit(tablename, values_dict) ==
    /\ Call
    /\ InsertError(tablename, values_dict, "none") = ""
    /\ db' = [db EXCEPT ![tablename] = Append(@, values_dict)]
    /\ pending' = InsertPayload(tablename, values_dict)
    /\ pc' = "write_log_file"
    /\ UNCHANGED <<logs, now>>

update_cell_commit(tablename, col, val, rowid) ==
    /\ Call
    /\ SqlUpdateOk(db[tablename], col, val, rowid)
    /\ db' = [db EXCEPT ![tablename] = SqlUpdate(@, col, val, rowid)]
    /\ pending' = UpdatePayload(tablename, col, val, rowid)
    /\ pc' = "write_log_file"
    /\ UNCHANGED <<logs, now>>

\* write_log_file(payload) of insert_row and of update_cell.
write_log_after_commit ==
    /\ pc = "write_log_file"
    /\ logs' = write_log_file(logs, pending, now + 1, "none")
    /\ now' = now + 1
    /\ pending' = NoPayload
    /\ pc' = "idle"
    /\ UNCHANGED <<db, nOps, col_types, col_standardization, mv, last, graph, seen, job>>

delete_row_log(tablename, rowid) ==
    /\ Call
    /\ LET rowid_int == RowidInt(rowid)
           found == CountId(db[tablename], rowid_int) > 0
       IN  /\ logs' = IF found
                      THEN write_log_file(logs, DeletePayload(tablename, rowid_int),
                                          now + 1, "none")
                      ELSE logs
           /\ now' = IF found THEN now + 1 ELSE now
           /\ pending' = [acao |-> "DELETE", tabela |-> tablename, rowid |-> rowid_int]
    /\ pc' = "delete_commit"
    /\ UNCHANGED db

delete_row_commit ==
    /\ pc = "delete_commit"
    /\ db' = [db EXCEPT ![pending.tabela] = SqlDelete(@, pending.rowid)]
    /\ pending' = NoPayload
    /\ pc' = "idle"
    /\ UNCHANGED <<logs, now, nOps, col_types, col_standardization, mv, last, graph, seen, job>>

\* The reader reads the tables and the audit files as they are.
reader_read ==
    /\ seen' = [db |-> db, logs |-> logs]
    /\ UNCHANGED <<db, logs, now, nOps, col_types, col_standardization, pc, mv, last,
                   graph, pending, job>>

NextConc ==
    \/ \E t \in TableNames, r \in Rows : insert_row_commit(t, r)
    \/ \E t \in TableNames, i \in Ids, c \in Range(Columns) : \E v \in CellTexts(c) :
           update_cell_commit(t, c, v, i)
    \/ write_log_after_commit
    \/ \E t \in TableNames, i \in Ids : delete_row_log(t, i)
    \/ delete_row_commit
    \/ reader_read

SpecConc == Init /\ [][NextConc]_vars

(***************************************************************************)
(* The handlers over typed columns: the settings give column empresa the   *)
(* type float in table A and the type int in table B, and the forms are    *)
(* filled with numerals, with a decimal written with a comma, with words.  *)
(***************************************************************************)
Types == ("A" :> ("empresa" :> "float")) @@ ("B" :> ("empresa" :> "int"))

InitTypes ==
    /\ db = Database
    /\ logs = <<>>
    /\ now = 0
    /\ nOps = 0
    /\ col_types = Types
    /\ col_standardization = Settings
    /\ pc = "idle"
    /\ mv = NoMove
    /\ last = Last("none", "ok", None, None, 0)
    /\ pending = NoPayload
    /\ seen = [db |-> Database, logs |-> <<>>]
    /\ job = NoJob
    /\ graph = NoGraph

TypedTexts == {"", "7", "1,5", "ACME"}
\* What stands in the entries of ask_fill_missing when it ends.
TypedFill == Typed \cup {Row("007", "")}
TypedRows == {Row(i, e) : i \in IdTexts, e \in TypedTexts}

NextTypes ==
    \/ Ready /\ \E t \in TableNames, r \in TypedRows : add_row_save(t, r)
    \/ Ready /\ \E t \in TableNames, i \in Ids, v \in TypedTexts :
                    cell_edit_save(t, i, "empresa", v)
    \/ Ready /\ \E s \in TableNames, d \in TableNames, n \in IdTexts, typed \in TypedFill :
                    \E r \in Range(db[s]) : do_move(s, r, d, n, typed)
    \/ do_move_delete

SpecTypes == InitTypes /\ [][NextTypes]_vars

(***************************************************************************)
(* The configuration dialog and the removal of a table: Config's setter of *)
(* a column's standardization, save_padronizacao of show_config, and       *)
(* drop_table behind the "Excluir Tabela" dialog.                          *)
(***************************************************************************)
listar_tabelas == DOMAIN db

get_table_columns(tablename) == IF tablename \in DOMAIN db THEN Columns ELSE <<>>

\* self.col_standardization[table][col] = {...} on the dict cs.
set_col_standardization(cs, table, col, std) ==
    [t \in DOMAIN cs \cup {table} |->
        IF t # table THEN cs[t]
        ELSE IF t \in DOMAIN cs THEN (col :> std) @@ cs[t]
        ELSE (col :> std)]

HasExplicit(cs, t, c) == t \in DOMAIN cs /\ c \in DOMAIN cs[t]

\* A propagation that also writes over the entries the tables already have.
PropagateTo_All(cs, c) ==
    {t \in listar_tabelas : c \in Range(get_table_columns(t))}

\* The tables save_padronizacao copies the "*" entry of column c to.
PropagateTo(cs, c) ==
    {t \in listar_tabelas :
        c \in Range(get_table_columns(t)) /\ ~HasExplicit(cs, t, c)}

RECURSIVE SetEach(_, _, _, _)
SetEach(cs, tables, col, std) ==
    IF tables = {} THEN cs
    ELSE LET t == CHOOSE x \in tables : TRUE
         IN  SetEach(set_col_standardization(cs, t, col, std), tables \ {t}, col, std)

\* The body of save_padronizacao's loop for the widgets of one column.
SaveColumn(cs, tab, c, std) ==
    LET own == set_col_standardization(cs, tab, c, std)
    IN  IF tab = "*" THEN SetEach(own, PropagateTo(own, c), c, std) ELSE own

\* on_pad_table_selected: the columns that get a row of widgets.
allcols(tab) ==
    IF tab # "*" THEN get_table_columns(tab)
    ELSE IF listar_tabelas = {} THEN <<>> ELSE Columns

RECURSIVE SaveLoop(_, _, _, _)
SaveLoop(cs, tab, widgets, k) ==
    IF k > Len(allcols(tab)) THEN cs
    ELSE LET c == allcols(tab)[k]
         IN  SaveLoop(SaveColumn(cs, tab, c, widgets[c]), tab, widgets, k + 1)

\* The widgets show the resolved entry of each column; the user retypes
\* the one of column empresa and presses "Salvar Padronização".
pad_widgets(tab, typed) ==
    [c \in Range(allcols(tab)) |->
        IF c = "empresa" THEN typed ELSE get_col_standardization(tab, c)]

save_padronizacao(tab, typed) ==
    /\ Ready
    /\ tab \in {"*"} \cup listar_tabelas
    /\ nOps' = nOps + 1
    /\ col_standardization' =
           SaveLoop(col_standardization, tab, pad_widgets(tab, typed), 1)
    /\ last' = Last("policy", "ok", tab, None, 0)
    /\ UNCHANGED <<db, logs, now, col_types, pc, mv, graph, pending, seen, job>>

Without(f, k) == [x \in DOMAIN f \ {k} |-> f[x]]

DropPayload(tablename) == [acao |-> "DROP_TABLE", tabela |-> tablename]

\* DROP TABLE IF EXISTS and its commit, the entries of the table taken out
\* of the configuration, then the audit entry.
drop_table(tablename, env) ==
    IF env = "write"
    THEN /\ last' = Last("drop", "StoreError", tablename, None, 0)
         /\ UNCHANGED <<db, logs, now, col_types, col_standardization>>
    ELSE /\ db' = Without(db, tablename)
         /\ col_types' = Without(col_types, tablename)
         /\ col_standardization' = Without(col_standardization, tablename)
         /\ logs' = write_log_file(logs, DropPayload(tablename), Stamp(env), env)
         /\ now' = Stamp(env)
         /\ last' = Last("drop", "ok", tablename, None, Wrote(env))

\* do_delete of the "Excluir Tabela" dialog, confirmed.
do_delete(t) ==
    /\ Ready
    /\ t \in listar_tabelas
    /\ nOps' = nOps + 1
    /\ \E env \in Envs : Possible(env) /\ drop_table(t, env)
    /\ UNCHANGED <<pc, mv, graph, pending, seen, job>>

(***************************************************************************)
(* SpecPolicy: the store started under each of a few configurations, with  *)
(* the handlers that read or write the configuration.                      *)
(***************************************************************************)
NoEntries == [x \in {} |-> x]

StarStd == "*" :> (("id" :> Free(TRUE)) @@ ("empresa" :> Free(TRUE)))
StarStdEmpresa == "*" :> ("empresa" :> Fixed(<<"ACME">>, FALSE))
TableStd == "A" :> ("empresa" :> Fixed(<<"X">>, TRUE))

StdConfigs == {NoEntries, StarStd, StarStdEmpresa, TableStd,
               TableStd @@ StarStd, TableStd @@ StarStdEmpresa}

StarType == "*" :> ("empresa" :> "int")
TableType == "A" :> ("empresa" :> "float")

TypeConfigs == {NoEntries, StarType, TableType, TableType @@ StarType}

InitPolicy ==
    /\ db = Database
    /\ logs = <<>>
    /\ now = 0
    /\ nOps = 0
    /\ col_types \in TypeConfigs
    /\ col_standardization \in StdConfigs
    /\ pc = "idle"
    /\ mv = NoMove
    /\ last = Last("none", "ok", None, None, 0)
    /\ pending = NoPayload
    /\ seen = [db |-> Database, logs |-> <<>>]
    /\ job = NoJob
    /\ graph = NoGraph

\* What the user leaves in the widgets of column empresa.
TypedStds == {Free(FALSE), Fixed(<<"X">>, TRUE)}

PolicyRows == {Row("", ""), Row("007", ""), Row("007", "X"), Row("7", "X")}

NextPolicy ==
    \/ \E tab \in {"*"} \cup TableNames, typed \in TypedStds : save_padronizacao(tab, typed)
    \/ \E t \in TableNames : do_delete(t)
    \/ Ready /\ \E t \in TableNames, r \in PolicyRows : add_row_save(t, r)

SpecPolicy == InitPolicy /\ [][NextPolicy]_vars

(***************************************************************************)
(* The Atualizar button next to the handlers of the sheet.  SpecJobFair    *)
(* adds what the scheduling gives: a started thread runs to its end        *)
(* (subprocess.run returns at the latest on its timeout), the main loop    *)
(* runs a callback handed to self.after, and a handler runs to its end.    *)
(***************************************************************************)
(* SpecWild: the store started with no entry of any table in the           *)
(* standardization, and the "*" row of the dialog the only one ever saved. *)
(***************************************************************************)
InitWild ==
    /\ InitPolicy
    /\ \A t \in TableNames : t \notin DOMAIN col_standardization

NextWild ==
    \/ \E typed \in TypedStds : save_padronizacao("*", typed)
    \/ \E t \in TableNames : do_delete(t)
    \/ Ready /\ \E t \in TableNames, r \in PolicyRows : add_row_save(t, r)

SpecWild == InitWild /\ [][NextWild]_vars

(***************************************************************************)
JobRows == {Row("007", "ACME"), Row("7", "X")}

NextJob ==
    \/ run_update_script
    \/ _run
    \/ _on_complete
    \/ Ready /\ \E t \in TableNames, r \in JobRows : add_row_save(t, r)
    \/ Ready /\ \E t \in TableNames, i \in Ids : cell_edit_save(t, i, "empresa", "X")
    \/ Ready /\ \E t \in TableNames, i \in Ids : delete_selection(t, i)
    \/ Ready /\ \E s \in TableNames, d \in TableNames, typed \in Typed :
                    \E r \in Range(db[s]) : do_move(s, r, d, "", typed)
    \/ do_move_delete

SpecJob == Init /\ [][NextJob]_vars

SpecJobFair ==
    SpecJob /\ WF_vars(_run) /\ WF_vars(_on_complete) /\ WF_vars(do_move_delete)

(***************************************************************************)
(* Properties of the record store, checked under Spec.                     *)
(***************************************************************************)
\* The audit files a step wrote or wrote over.
Written == {f \in DOMAIN logs' : f \notin DOMAIN logs \/ logs'[f] # logs[f]}

\* The step is a call of insert_row, update_cell or delete_row that changed
\* a table and returned.
RowMutation ==
    /\ last'.op \in {"insert", "update", "delete", "move"}
    /\ last'.res = "ok"
    /\ db' # db

\* The entry e tells what the step did to its table.
Tells(e) ==
    LET t == e.tabela
    IN  \/ /\ e.acao = "INSERT"
           /\ db'[t] = Append(db[t], e.detalhes)
        \/ /\ e.acao = "UPDATE"
           /\ e.valor_antigo = OldValue(db[t], e.coluna, e.rowid)
           /\ db'[t] = SqlUpdate(db[t], e.coluna, e.valor_novo, e.rowid)
        \/ /\ e.acao = "DELETE"
           /\ e.valor_antigo = SelectById(db[t], e.rowid)
           /\ db'[t] = SqlDelete(db[t], e.rowid)

\* C1: every successful insert, update or delete adds exactly one audit
\* entry to the log, and the values that entry records are the state of the
\* row before and after the mutation.
C1_OneEntryPerMutation ==
    [][RowMutation =>
          /\ Cardinality(DOMAIN logs') = Cardinality(DOMAIN logs) + 1
          /\ \A f \in Written : Tells(logs'[f])]_vars

\* C2: in every reachable state no table holds two rows with the same id.
C2_UniqueId ==
    \A t \in DOMAIN db : \A i, j \in DOMAIN db[t] :
        db[t][i].id = db[t][j].id => i = j

\* A statement has been refused on the primary key of a table of two rows.
C2_Witness ==
    /\ last.res = "IntegrityError"
    /\ \E t \in DOMAIN db : Len(db[t]) >= 2

\* C3: in every reachable state every column whose resolved policy is fixed
\* holds, in every row, the empty string or a value of the allowed set.
C3_FixedColumnsHold ==
    \A t \in DOMAIN db : \A i \in DOMAIN db[t] : \A c \in Range(Columns) :
        LET std == get_col_standardization(t, c)
        IN  std.mode = "fixed" =>
                db[t][i][c] = "" \/ db[t][i][c] \in Range(std.values)

\* C4: a move never loses the row.  While do_move stands between its two
\* calls the row is in the source and in the destination; the first call
\* removes nothing, and changes a table only by the insert into the
\* destination that lets the second call run; the second call leaves the
\* row in the destination.
C4_MoveKeepsRow ==
    [][/\ pc' = "move_delete" =>
             /\ CountId(db'[mv'.src], mv'.rowid) > 0
             /\ CountId(db'[mv'.dest], mv'.new_id) > 0
       /\ pc = "idle" /\ last'.op = "move" =>
             \A t \in TableNames :
                 \/ db'[t] = db[t]
                 \/ /\ pc' = "move_delete"
                    /\ t = mv'.dest
                    /\ Len(db'[t]) = Len(db[t]) + 1
                    /\ SubSeq(db'[t], 1, Len(db[t])) = db[t]
       /\ pc = "move_delete" =>
             /\ CountId(db'[mv.dest], mv.new_id) > 0
             /\ db'[mv.dest] = db[mv.dest]]_vars

\* A move has run to its end and the row has left the source table.
C4_Witness ==
    /\ pc = "idle"
    /\ last.op = "move"
    /\ last.res = "ok"
    /\ \E t \in DOMAIN db : Len(db[t]) = 0

\* C5: no audit entry exists for a mutation that did not commit: a step
\* that reports a failure writes no DELETE, IMPORT_INSERT or IMPORT_UPDATE
\* entry.
C5_NoEntryWithoutCommit ==
    [][last'.res # "ok" /\ db' = db =>
          \A f \in Written :
              logs'[f].acao \notin {"DELETE", "IMPORT_INSERT", "IMPORT_UPDATE"}]_vars

\* C6: the audit log is append-only under identifiers of its own: a step
\* leaves every earlier entry as it was, and the log grows by one entry for
\* each call of write_log_file that wrote.
C6_AppendOnly ==
    [][/\ \A f \in DOMAIN logs : f \in DOMAIN logs' /\ logs'[f] = logs[f]
       /\ Cardinality(DOMAIN logs') = Cardinality(DOMAIN logs) + last'.wrote]_vars

\* The table holds a row under idval.
Held(t, idval) == \E i \in DOMAIN db[t] : db[t][i].id = idval

\* The step is one of add_row.save, of cell_edit's save, of do_move up to
\* its insert_row: what every call of the handler reports.
Saved == pc = "idle" /\ last'.op = "insert"
Edited == pc = "idle" /\ last'.op = "update"
Moved == pc = "idle" /\ last'.op = "move"

\* C7, as stated: an insert of a record whose id is the id of a row of the
\* table fails with DuplicateId, and no row is added.
C7_DuplicateIdAlways ==
    [][\A t \in TableNames, r \in Rows :
          Saved /\ Held(t, r.id) /\ add_row_save(t, r) =>
              last'.res = "DuplicateId" /\ db' = db]_vars

\* C7, amended: an insert of a record whose id is the id of a row of the
\* table adds no row; it fails with MissingRequired when the record leaves a
\* required column empty, else with EmptyId when its id is the empty string,
\* else with DuplicateId.
C7_DuplicateIdRefused ==
    [][\A t \in TableNames, r \in Rows :
          Saved /\ Held(t, r.id) /\ add_row_save(t, r) =>
              /\ db' = db
              /\ last'.res = IF \E c \in Range(Columns) :
                                    get_col_standardization(t, c).required /\ r[c] = ""
                             THEN "MissingRequired"
                             ELSE IF r.id = "" THEN "EmptyId"
                             ELSE "DuplicateId"]_vars

\* An insert has been refused for its id.
C7_Witness == last.op = "insert" /\ last.res = "DuplicateId"

\* Column c of table t is fixed-mode and v is a non-empty value outside its
\* allowed set.
OutsideFixed(t, c, v) ==
    LET std == get_col_standardization(t, c)
    IN  std.mode = "fixed" /\ v # "" /\ v \notin Range(std.values)

\* C8, as stated: an insert or an update that supplies a fixed-mode column
\* with a non-empty value outside the allowed set fails with
\* InvalidFixedValue and leaves the store unchanged.
C8_InvalidFixedAlways ==
    [][/\ \A t \in TableNames, r \in Rows :
             /\ Saved
             /\ \E c \in Range(Columns) : OutsideFixed(t, c, r[c])
             /\ add_row_save(t, r)
             =>
                 last'.res = "InvalidFixedValue" /\ db' = db /\ logs' = logs
       /\ \A t \in TableNames, i \in Ids, c \in Range(Columns) : \A v \in CellTexts(c) :
             Edited /\ OutsideFixed(t, c, v) /\ cell_edit_save(t, i, c, v) =>
                 last'.res = "InvalidFixedValue" /\ db' = db /\ logs' = logs]_vars

\* Every value of the record passes the check of its column's type.
WellTyped(t, r) == \A c \in Range(Columns) : TypeError(get_col_type(t, c), r[c]) = ""

\* C8, amended: an insert or an update that supplies a fixed-mode column
\* with a non-empty value outside the allowed set leaves the store
\* unchanged and fails.  An update fails with InvalidFixedValue when the
\* value passes the check of the column's type.  An insert fails with
\* MissingRequired when a required column is empty, else with EmptyId when
\* the id is empty, else with DuplicateId when the table holds the id, else
\* with InvalidFixedValue when every value passes the check of its type.
C8_InvalidFixedRefused ==
    [][/\ \A t \in TableNames, r \in Rows :
             /\ Saved
             /\ \E c \in Range(Columns) : OutsideFixed(t, c, r[c])
             /\ add_row_save(t, r)
             =>
                 /\ db' = db /\ logs' = logs
                 /\ last'.res # "ok"
                 /\ last'.res =
                       IF \E c \in Range(Columns) :
                              get_col_standardization(t, c).required /\ r[c] = ""
                       THEN "MissingRequired"
                       ELSE IF r.id = "" THEN "EmptyId"
                       ELSE IF Held(t, r.id) THEN "DuplicateId"
                       ELSE IF WellTyped(t, r) THEN "InvalidFixedValue"
                       ELSE last'.res
       /\ \A t \in TableNames, i \in Ids, c \in Range(Columns) : \A v \in CellTexts(c) :
             Edited /\ OutsideFixed(t, c, v) /\ cell_edit_save(t, i, c, v) =>
                 /\ db' = db /\ logs' = logs
                 /\ last'.res # "ok"
                 /\ TypeError(get_col_type(t, c), v) = "" =>
                        last'.res = "InvalidFixedValue"]_vars

\* A value has been refused for the allowed set of its column.
C8_Witness == last.res = "InvalidFixedValue"

\* C9: a move whose effective id (the new id if one is typed, else the
\* row's id) is the id of a row of the destination fails with DuplicateId,
\* and the rows of the source and of the destination are as they were.
C9_MoveDuplicateRefused ==
    [][\A s \in TableNames, d \in TableNames, n \in IdTexts, typed \in Typed :
          \A r \in Range(db[s]) :
              Moved /\ Held(d, IF n = "" THEN r.id ELSE n) /\ do_move(s, r, d, n, typed) =>
                  last'.res = "DuplicateId" /\ db' = db /\ pc' = "idle"]_vars

\* A move has been refused for its id.
C9_Witness == last.op = "move" /\ last.res = "DuplicateId"

\* What the loop of an import of file f into table t has executed when it
\* ends or meets a row that fails, the store raising nothing of its own.
Executed(t, f) ==
    ImportLoop([ImportStart EXCEPT !.tbl = db[t], !.files = logs, !.ts = now],
               t, f, 1, "none")

\* C14: in a bulk import a failing row is isolated: with no store-level
\* error the batch is not rolled back, and the rows that did not fail are
\* in the table and in the inserted and updated totals.
C14_FailingRowIsolated ==
    [][\A t \in TableNames, f \in Files :
          last'.op = "import" /\ import_file_to_table(t, f, "none") =>
              /\ last'.res = "ok"
              /\ last'.inserted >= Executed(t, f).inserted
              /\ last'.updated >= Executed(t, f).updated
              /\ \A r \in Range(Executed(t, f).tbl) : r \in Range(db'[t])]_vars

\* A file that lacks the id column: none of its rows carries an id.
NoIdColumn(f) == \A k \in DOMAIN f : f[k].id = None

\* C15: in a bulk import every row without an id is inserted, however many
\* such rows the batch holds: the import succeeds, counts them all as
\* inserted and the table grows by that many rows.
C15_RowsWithoutIdInserted ==
    [][\A t \in TableNames, f \in Files :
          last'.op = "import" /\ NoIdColumn(f)
              /\ import_file_to_table(t, f, "none") =>
              /\ last'.res = "ok"
              /\ last'.inserted = Len(f)
              /\ Len(db'[t]) = Len(db[t]) + Len(f)]_vars

\* C20: a delete of a rowId that is not the id of any row of the table
\* writes no audit entry and leaves the table as it was.
C20_DeleteAbsentRow ==
    [][\A t \in TableNames, i \in Ids :
          pc = "idle" /\ last'.op = "delete" /\ ~Held(t, i)
              /\ delete_selection(t, i) =>
              logs' = logs /\ db' = db]_vars

\* The step tried to write an audit file and could not: the clock of the
\* log moved and the log did not change.
AuditWriteFailed == now' # now /\ logs' = logs

\* After the step table t has no row whose id is idval, and a DELETE audit
\* entry holds the row that had it.
Deleted(t, idval) ==
    /\ \A i \in DOMAIN db'[t] : db'[t][i].id # idval
    /\ \E f \in DOMAIN logs' :
           /\ logs'[f].acao = "DELETE" /\ logs'[f].tabela = t
           /\ \E i \in DOMAIN db[t] : db[t][i].id = idval /\ logs'[f].valor_antigo = db[t][i]

\* C27: a delete that returns, for a rowId that is the id of a row of the
\* table, leaves no row with that id and a DELETE audit entry holding the
\* row, whatever the text of the id, and so does the delete of the source
\* row that ends a move.
C27_DeleteByAnyId ==
    [][/\ \A t \in TableNames, i \in Ids :
              pc = "idle" /\ last'.op = "delete" /\ last'.res = "ok"
                  /\ Held(t, i) /\ ~AuditWriteFailed /\ delete_selection(t, i) =>
                  Deleted(t, i)
       /\ pc = "move_delete" /\ last'.res = "ok" /\ Held(mv.src, mv.rowid)
              /\ ~AuditWriteFailed /\ do_move_delete =>
              Deleted(mv.src, mv.rowid)]_vars

\* C25: a failure to write the audit entry does not undo the mutation:
\* when the audit file of an insert or an update cannot be written, the
\* row is inserted or updated all the same and the operation completes.
C25_AuditFailureKeepsMutation ==
    [][/\ \A t \in TableNames, r \in Rows :
              Saved /\ AuditWriteFailed /\ add_row_save(t, r) =>
                  last'.res = "ok" /\ db' = [db EXCEPT ![t] = Append(@, r)]
       /\ \A t \in TableNames, i \in Ids, c \in Range(Columns) : \A v \in CellTexts(c) :
              Edited /\ AuditWriteFailed /\ cell_edit_save(t, i, c, v) =>
                  last'.res = "ok" /\ db' = [db EXCEPT ![t] = SqlUpdate(@, c, v, i)]]_vars

\* An insert has completed and its row is in the table, while the log
\* holds no entry at all.
C25_Witness ==
    /\ last.op = "insert" /\ last.res = "ok" /\ last.wrote = 0
    /\ logs = <<>>
    /\ \E t \in DOMAIN db : Len(db[t]) = 2

\* C30: an update addressed to a rowId that is not the id of any row of the
\* table changes no row, and the audit file it writes is an UPDATE entry
\* whose old value is null and whose new value is the value given.
C30_UpdateAbsentRow ==
    [][\A t \in TableNames, i \in Ids, c \in Range(Columns), env \in {"none", "sametick"} :
          \A v \in CellTexts(c) :
              Edited /\ ~Held(t, i) /\ Possible(env) /\ update_cell(t, c, v, i, env) =>
                  /\ db' = db
                  /\ last'.res = "ok"
                  /\ now' \in DOMAIN logs'
                  /\ logs'[now'] = [acao |-> "UPDATE", tabela |-> t, rowid |-> i,
                                    coluna |-> c, valor_antigo |-> None,
                                    valor_novo |-> v]]_vars

\* The store is as it started, and the log holds one entry: an UPDATE of
\* row "007", which no table has, with no old value.
C30_Witness ==
    /\ last.op = "update" /\ last.res = "ok" /\ last.wrote = 1
    /\ db = Database
    /\ \E f \in DOMAIN logs :
           /\ DOMAIN logs = {f}
           /\ logs[f].acao = "UPDATE" /\ logs[f].rowid = "007"
           /\ logs[f].valor_antigo = None

(***************************************************************************)
(* Properties of the graph tab, checked under SpecAgg.                     *)
(***************************************************************************)
\* The seventh field of an entry, 0 when the entry has none.
Seventh(t) == IF Len(t) >= 7 THEN t[7] ELSE 0

\* C10: the interest of an entry is its amount paid minus its amortization,
\* the seventh field of the entry (0 when absent): the sum built for the
\* metric juros from a field of one counted entry is that difference.
C10_InterestFromSeventhField ==
    LET items == graph.tuplas.items
    IN  /\ graph.shown # "none"
        /\ graph.tuplas.form = "literal"
        /\ Len(items) = 1
        /\ graph.metric = "juros"
        /\ graph.grouping = "por_empresa"
        /\ Counted(EntryLocals(items[1]))
        => graph.agg = (<<EntryLocals(items[1]).dt.year, EntryLocals(items[1]).dt.month,
                          items[1][3]>> :> items[1][1] - Seventh(items[1]))

\* The metric of an entry as the schedule format defines it: the amount
\* paid, the amortization (the seventh field), their difference.
EntryMetric(metric, t) ==
    IF metric = "parcelas" THEN t[1]
    ELSE IF metric = "amortizacao" THEN Seventh(t)
    ELSE t[1] - Seventh(t)

\* The entry is dated within the period and its company is selected.
Included(t) ==
    /\ Len(t) >= 3
    /\ strptime(t[2]).year # 0
    /\ InPeriod(strptime(t[2]), sm, sy, em, ey)
    /\ t[3] \in selected_companies

\* The (year, month, group) an included entry is summed under.
KeyOf(t, grouping) ==
    <<strptime(t[2]).year, strptime(t[2]).month, Group(grouping, t[3], selected_bank)>>

RECURSIVE SumOf(_, _, _, _, _)
SumOf(items, k, key, metric, grouping) ==
    IF k > Len(items) THEN 0
    ELSE (IF Included(items[k]) /\ KeyOf(items[k], grouping) = key
          THEN EntryMetric(metric, items[k]) ELSE 0)
         + SumOf(items, k + 1, key, metric, grouping)

\* The entries the field decodes to.
Decoded(val) == IF val.form \in {"literal", "curly"} THEN val.items ELSE <<>>

\* C11: the sums built are, for each (year, month, group), exactly the sum
\* of the chosen metric over the decoded entries dated within the period,
\* of a selected company and of that group; an entry outside the period or
\* the selection adds to no sum.
C11_GroupedSums ==
    graph.shown # "none" =>
        LET items == Decoded(graph.tuplas)
            keys == {KeyOf(items[k], graph.grouping) :
                        k \in {j \in DOMAIN items : Included(items[j])}}
        IN  /\ DOMAIN graph.agg = keys
            /\ \A key \in keys :
                   graph.agg[key] = SumOf(items, 1, key, graph.metric, graph.grouping)

(***************************************************************************)
(* Properties of the helpers beside a reader, checked under SpecConc.      *)
(***************************************************************************)
\* The entry e of table t tells of row r as it stands: its insert, or the
\* update that gave it one of its values.
TellsOf(e, t, r) ==
    /\ e.tabela = t
    /\ \/ e.acao = "INSERT" /\ e.detalhes = r
       \/ e.acao = "UPDATE" /\ r[e.coluna] = e.valor_novo

\* Every change of the tables d from the database at the start has an
\* entry in the audit files l: a row that was not there was inserted or
\* updated, a row that is no more there was updated or deleted.
Audited(d, l) ==
    \A t \in DOMAIN d :
        /\ \A r \in Range(d[t]) \ Range(Database[t]) :
               \E f \in DOMAIN l : TellsOf(l[f], t, r)
        /\ \A r \in Range(Database[t]) \ Range(d[t]) :
               \E f \in DOMAIN l :
                   /\ l[f].tabela = t
                   /\ \/ l[f].acao = "DELETE" /\ l[f].valor_antigo = r
                      \/ l[f].acao = "UPDATE" /\ l[f].rowid = r.id

\* C12: a mutation and its audit append are atomic for readers: no read
\* sees an insert, update or delete committed to the tables while its audit
\* entry is not in the log.
C12_AtomicForReaders == Audited(seen.db, seen.logs)

(***************************************************************************)
(* Properties of the handlers over typed columns, checked under SpecTypes. *)
(***************************************************************************)
Refusals == {"InvalidType", "InvalidFormat", "InvalidFixedValue", "MissingRequired",
             "DuplicateId", "IntegrityError"}

\* C13: an insert, update or move that fails with a validation or
\* integrity error fails before any write: the step leaves every table and
\* the audit log as they were.
C13_FailsBeforeWrite ==
    [][last'.op \in {"insert", "update", "move"} /\ last'.res \in Refusals /\ nOps' # nOps
          => db' = db /\ logs' = logs]_vars

\* A decimal written with a comma has been refused after an earlier
\* operation wrote to the tables and to the log.
C13_Witness ==
    /\ last.res = "InvalidFormat"
    /\ logs # <<>>
    /\ db # Database

(***************************************************************************)
(* Properties of the configuration, checked under SpecPolicy.              *)
(***************************************************************************)
\* The entry of (t, c) in entries, else the entry of ("*", c), else default.
Resolve(entries, t, c, default) ==
    CASE HasExplicit(entries, t, c) -> entries[t][c]
      [] ~HasExplicit(entries, t, c) /\ HasExplicit(entries, "*", c) -> entries["*"][c]
      [] OTHER -> default

\* The columns of record r that the resolved policy of table t requires
\* and r leaves empty.
RequiredEmpty(t, r) ==
    {c \in Range(Columns) :
        Resolve(col_standardization, t, c, DefaultStd).required /\ r[c] = ""}

\* C16: an insert that leaves required columns empty fails with
\* MissingRequired, naming every such column, and writes nothing; the row
\* written by a completed insert has no required column empty.
C16_RequiredFilled ==
    [][\A t \in TableNames, r \in PolicyRows :
          Saved /\ add_row_save(t, r) =>
              /\ RequiredEmpty(t, r) # {} =>
                     /\ last'.res = "MissingRequired"
                     /\ MissingRequired(t, r) = RequiredEmpty(t, r)
                     /\ db' = db /\ logs' = logs
              /\ last'.res = "ok" =>
                     /\ RequiredEmpty(t, r) = {}
                     /\ r \in Range(db'[t])]_vars

\* An insert was refused for its empty required columns in a store where a
\* table requires both of its columns.
C16_Witness ==
    /\ last.op = "insert" /\ last.res = "MissingRequired"
    /\ \E t \in DOMAIN db : \A c \in Range(Columns) :
           Resolve(col_standardization, t, c, DefaultStd).required

\* The tables and the columns a policy is asked for: the tables of the
\* store, dropped or not, a table and a column without any entry.
AskedTables == TableNames \cup {"Z"}
AskedColumns == Range(Columns) \cup {"doc"}

\* C17: the policy of (table, column) is always defined, and it is the
\* entry of the table when there is one, else the entry of "*" when there
\* is one, else text, free and not required; for the type and for the
\* standardization with its required flag.
C17_ResolutionPrecedence ==
    \A t \in AskedTables, c \in AskedColumns :
        /\ get_col_type(t, c) = Resolve(col_types, t, c, "text")
        /\ get_col_standardization(t, c) = Resolve(col_standardization, t, c, DefaultStd)
        /\ get_col_type(t, c) \in {"text", "int", "float", "date"}
        /\ get_col_standardization(t, c).mode \in {"free", "fixed"}
        /\ get_col_standardization(t, c).required \in BOOLEAN

\* A table entry stands against a different "*" entry of the same column,
\* another table has only the "*" entry, and a column has no entry at all,
\* in a store where add_row.save has looked the policies up and inserted.
C17_Witness ==
    /\ HasExplicit(col_standardization, "A", "empresa")
    /\ HasExplicit(col_standardization, "*", "empresa")
    /\ col_standardization["A"]["empresa"] # col_standardization["*"]["empresa"]
    /\ ~HasExplicit(col_standardization, "B", "empresa")
    /\ ~HasExplicit(col_standardization, "A", "id")
    /\ ~HasExplicit(col_standardization, "*", "id")
    /\ HasExplicit(col_types, "A", "empresa")
    /\ HasExplicit(col_types, "*", "empresa")
    /\ col_types["A"]["empresa"] # col_types["*"]["empresa"]
    /\ last.op = "insert" /\ last.res = "ok"

\* C18: saving the policy p of a column under "*" writes p to every
\* existing table that has the column and no entry of its own for it, and
\* leaves the entry of every table that has one as it was.
C18_WildcardPropagation ==
    [][\A typed \in TypedStds :
          last'.op = "policy" /\ save_padronizacao("*", typed) =>
              \A t \in listar_tabelas : \A c \in Range(get_table_columns(t)) :
                  /\ col_standardization'["*"][c] = pad_widgets("*", typed)[c]
                  /\ HasExplicit(col_standardization', t, c)
                  /\ col_standardization'[t][c] =
                         IF HasExplicit(col_standardization, t, c)
                         THEN col_standardization[t][c]
                         ELSE pad_widgets("*", typed)[c]]_vars

\* After a save under "*" one table carries the "*" entry of column
\* empresa and another keeps an entry of its own that differs from it.
C18_Witness ==
    /\ last.op = "policy"
    /\ HasExplicit(col_standardization, "*", "empresa")
    /\ HasExplicit(col_standardization, "A", "empresa")
    /\ HasExplicit(col_standardization, "B", "empresa")
    /\ col_standardization["B"]["empresa"] = col_standardization["*"]["empresa"]
    /\ col_standardization["A"]["empresa"] # col_standardization["*"]["empresa"]
    /\ "B" \in listar_tabelas

\* The DROP_TABLE entries of table t in the log l.
DropEntries(l, t) == {f \in DOMAIN l : l[f] = DropPayload(t)}

\* C19: dropping a table removes the table and every type and
\* standardization entry of the table, adds exactly one DROP_TABLE entry
\* to the log, and leaves the rows and the entries of every other table
\* and of "*" as they were.
C19_DropTable ==
    [][\A t \in TableNames :
          last'.op = "drop" /\ last'.res = "ok" /\ do_delete(t) =>
              /\ t \notin DOMAIN db'
              /\ t \notin DOMAIN col_types'
              /\ t \notin DOMAIN col_standardization'
              /\ Cardinality(DropEntries(logs', t)) = Cardinality(DropEntries(logs, t)) + 1
              /\ Cardinality(DOMAIN logs') = Cardinality(DOMAIN logs) + 1
              /\ db' = Without(db, t)
              /\ col_types' = Without(col_types, t)
              /\ col_standardization' = Without(col_standardization, t)]_vars
(***************************************************************************)
(* Further properties of the move dialog, checked under SpecTypes.         *)
(***************************************************************************)
\* C21: when the row mapped onto the destination leaves a required column
\* of the destination empty, the move writes to the destination only a row
\* in which the caller has filled every such column; a cancelled dialog
\* leaves both tables and the audit log as they were.
C21_MoveFillsRequired ==
    [][\A s \in TableNames, d \in TableNames, n \in IdTexts, typed \in TypedFill :
          \A r \in Range(db[s]) :
              Moved /\ do_move(s, r, d, n, typed)
                  /\ RequiredEmpty(d, MoveValues(r, NewId(r, n))) # {} =>
                  /\ typed.id = None => db' = db /\ logs' = logs /\ pc' = "idle"
                  /\ db' # db =>
                         /\ \A c \in RequiredEmpty(d, MoveValues(r, NewId(r, n))) :
                                typed[c] # ""
                         /\ \E i \in DOMAIN db'[d] :
                                /\ db'[d][i].id = NewId(r, n)
                                /\ RequiredEmpty(d, db'[d][i]) = {}]_vars

\* A move was given up in the dialog of the missing columns after earlier
\* operations had written to the tables and to the log.
C21_Witness ==
    /\ last.op = "move" /\ last.res = "Cancelled"
    /\ db # Database
    /\ logs # <<>>
(***************************************************************************)
(* Properties of _parse_tuplas_field, checked under SpecCodec.             *)
(***************************************************************************)
\* The text is the text of a sequence of entries cut short.
Truncated(text) ==
    \E x \in CodecLists : text \in Prefixes(encode(x)) \cup Prefixes(Curly(encode(x)))

\* The text holds no bracket and no comma: a number, a string, a word.
NotASequence(text) == Len(text) = 1

\* C22: decoding never fails: whatever the text, the result is a sequence,
\* and it is the empty sequence for a text cut short, a text that is no
\* sequence, the empty text and the text nan.
C22_DecodeTotal ==
    graph.shown = "parsed" =>
        /\ DOMAIN graph.tupl = 1..Len(graph.tupl)
        /\ LET text == graph.tuplas.items
           IN  Truncated(text) \/ NotASequence(text) \/ text = <<>>
                   => graph.tupl = <<>>

\* A text cut short within its second entry has been decoded.
C22_Witness ==
    /\ graph.shown = "parsed"
    /\ Truncated(graph.tuplas.items)
    /\ Len(graph.tuplas.items) > 20

\* C23: decoding the canonical text of a sequence of well-formed entries
\* gives that sequence back.
C23_RoundTrip ==
    graph.shown = "parsed" =>
        \A x \in CodecLists : graph.tuplas.items = encode(x) => graph.tupl = x

\* The text of two entries, one with an apostrophe in its company, has
\* been decoded.
C23_Witness ==
    /\ graph.shown = "parsed"
    /\ \E x \in CodecLists :
           /\ Len(x) = 2 /\ x[1][3] = "D'A" /\ x[2][3] = "ACME"
           /\ graph.tuplas.items = encode(x)
(***************************************************************************)
(* Properties of the loop over rows and entries, checked under SpecRows.   *)
(***************************************************************************)
\* The entry has the fields the sum needs, a number as its amount and a
\* date of the form dd-mm-yyyy.
WellFormed(t) == Len(t) >= 3 /\ t[1] # BadAmount /\ strptime(t[2]).year # 0

\* The field without its malformed entries; a text that is no list holds none.
Cleaned(f) == Field("literal", SelectSeq(Decoded(f), WellFormed))

\* The sums over the well-formed entries of the two rows alone.
CleanSums ==
    RowLoop(AggLoop(<<>>, Cleaned(graph.tuplas).items, 1, graph.metric, graph.grouping),
            <<Cleaned(graph.rows[1])>>, 1, graph.metric, graph.grouping)

\* C24: a malformed entry is skipped and the aggregation goes on: the sums
\* are those of the well-formed entries of the same row and of the other
\* rows, as if the malformed entries were not there.
C24_MalformedSkipped ==
    graph.shown # "none" => graph.agg = CleanSums

\* Sums were drawn from a first row that holds a malformed entry before a
\* well-formed one and from a second row that contributes too.
C24_Witness ==
    /\ graph.shown = "plot"
    /\ graph.tuplas.form = "literal" /\ Len(graph.tuplas.items) = 2
    /\ ~WellFormed(graph.tuplas.items[1]) /\ WellFormed(graph.tuplas.items[2])
    /\ graph.rows[1].form = "literal" /\ Len(graph.rows[1].items) = 2
    /\ ~WellFormed(graph.rows[1].items[1]) /\ WellFormed(graph.rows[1].items[2])
    /\ graph.metric = "parcelas"
    /\ graph.agg = (<<2024, 3, "ACME">> :> 150)
(***************************************************************************)
(* Properties of the Atualizar button, checked under SpecJob and, for what *)
(* must eventually happen, under SpecJobFair.                              *)
(***************************************************************************)
\* The jobs started whose report has not run yet.
InFlight == job.threads + Len(job.after)

\* The k-th box shown reports the k-th end of a launch: success for exit
\* code 0 and failure for all the rest.
Reported(k) ==
    /\ k <= Len(job.procs)
    /\ job.boxes[k].box = (IF job.procs[k] = Exit(0) THEN "showinfo" ELSE "showerror")
    /\ job.procs[k].kind # "isfile" => job.boxes[k].returncode = returncode(job.procs[k])

\* C26: every launch of the script is eventually followed by exactly one
\* report on the GUI thread, a success when the exit code is 0 and a
\* failure when it is not, when the script timed out and when it could not
\* be started; once it is reported the button is enabled again, and the
\* report leaves the database and the audit files as the script left them.
C26_JobReported ==
    /\ \A n \in 1..MaxOps : (job.launches >= n) ~> (Len(job.boxes) >= n)
    /\ [](/\ Len(job.boxes) + InFlight = job.launches
          /\ \A k \in 1..Len(job.boxes) : Reported(k)
          /\ InFlight = 0 => job.button = "normal")
    /\ [][job.boxes' # job.boxes => db' = db /\ logs' = logs /\ pc' = "idle"]_vars

\* A script that timed out has been reported as a failure, the button is
\* enabled again and the row the script added is in table A.
C26_Witness ==
    /\ job.launches = 1 /\ InFlight = 0
    /\ job.procs = <<TimeoutExpired>>
    /\ job.boxes = <<showerror(-1, "Saida gravada")>>
    /\ job.button = "normal"
    /\ ScriptRow \in Range(db["A"])

\* C29: at most one job is in flight: from the launch until the report has
\* run the button is disabled and run_update_script cannot be called,
\* while the handlers of the sheet can: insert, update, delete and move.
C29_OneJobInFlight ==
    /\ InFlight <= 1
    /\ InFlight = 1 =>
           /\ job.button = "disabled"
           /\ ~ENABLED run_update_script
           /\ Ready =>
                  /\ ENABLED add_row_save("A", Row("007", "ACME"))
                  /\ ENABLED cell_edit_save("A", "7", "empresa", "X")
                  /\ ENABLED delete_selection("A", "7")
                  /\ \A r \in Range(db["A"]) : ENABLED do_move("A", r, "B", "", Cancel)

\* A row has been inserted while the job was in flight.
C29_Witness ==
    /\ InFlight = 1 /\ job.button = "disabled"
    /\ last.op = "insert" /\ last.res = "ok"
    /\ Len(db["A"]) = 2

(***************************************************************************)
(* Properties of the "*" standardization, checked under SpecWild.          *)
(***************************************************************************)
\* C28: when only "*" is ever saved, every save of "*" leaves each table
\* of the store, for each of its columns, with the policy just saved: the
\* copies an earlier save of "*" wrote to the tables do not stand against
\* a later one.
C28_LatestWildcardWins ==
    [][\A typed \in TypedStds :
          last'.op = "policy" /\ save_padronizacao("*", typed) =>
              \A t \in listar_tabelas : \A c \in Range(get_table_columns(t)) :
                  Resolve(col_standardization', t, c, DefaultStd)
                      = pad_widgets("*", typed)[c]]_vars

====
